---- MODULE Spec2Model ----
(***************************************************************************)
(* Resumable batch execution in Python_Docs_Generator.                     *)
(*                                                                         *)
(* Spec models fetch_python_docs.py: one process at a time runs main(),    *)
(* which sweeps orphan .tmp files, loads .fetch_state.json, obtains the    *)
(* list of pages (the Universe), plans the work list and processes it,     *)
(* saving the state through a temporary file and a rename.  The process    *)
(* can be killed at any step and started again.                            *)
(***************************************************************************)
EXTENDS Integers, Sequences, FiniteSets, TLC

\* ------------------------------------------------------------------ bounds
\* How many times main() is started in one behaviour.
MaxRuns == 2
\* How many disruptions one behaviour holds: a write_text, replace or unlink
\* that raises OSError, a kill of the process, a Ctrl+C.
MaxFaults == 2

\* ------------------------------------------------------------- item keys
\* The pages docs.python.org can list, as url_path.replace(".html", "")
\* .split("/"), in the order sorted() gives their url_path:
\*   "contents.html" < "deprecations/index.html" < "index.html"
URLS == << <<"contents">>, <<"deprecations", "index">>, <<"index">> >>
Keys == 1..Len(URLS)
\* last_url = None
NoUrl == 0
\* mark_failed("contents.html", ...) of main(): the key of that page
ContentsKey == CHOOSE k \in Keys : URLS[k] = <<"contents">>

\* SECTION_TO_DIR.get(section, "99_OTHER") on the sections the keys use
SECTION_TO_DIR(section) ==
    CASE section = "whatsnew" -> "04_WHATSNEW"
      [] section = "tutorial" -> "01_TUTORIAL"
      [] section = "library" -> "02_LIBRARY"
      [] section = "reference" -> "03_LANGUAGE_REFERENCE"
      [] OTHER -> "99_OTHER"

\* _url_to_output_path: the directory and the stem of the .md file.  The stem
\* is "_".join(parts[1:]), kept as the tuple of the joined parts.
_url_to_output_path(u) ==
    LET parts == URLS[u]
        section == parts[1]
        name == IF Len(parts) < 2 THEN <<parts[1]>> ELSE Tail(parts)
    IN  [dir |-> SECTION_TO_DIR(section), name |-> name]

Paths == {_url_to_output_path(u) : u \in Keys}

\* ------------------------------------------------------------ error texts
\* f"{type(e).__name__}: {e}" of a failed fetch_page, of a failed disk write,
\* of an unexpected exception; str(e) of a failed contents.html download.
ErrFetch == "URLError: <urlopen error>"
ErrDisk == "OSError: No space left on device"
ErrFatal == "ImportError: beautifulsoup4"
ErrContents == "<urlopen error>"
Traceback(e) == <<"Traceback (most recent call last)", e>>

\* ------------------------------------------------------------- sequences
Range(s) == {s[n] : n \in 1..Len(s)}
IsIn(x, s) == \E n \in 1..Len(s) : s[n] = x
NoDup(s) == \A m, n \in 1..Len(s) : m # n => s[m] # s[n]
\* sorted(S) of a set of keys
RECURSIVE Sorted(_)
Sorted(S) ==
    IF S = {} THEN <<>>
    ELSE LET m == CHOOSE x \in S : \A y \in S : x <= y
         IN  <<m>> \o Sorted(S \ {m})

\* ---------------------------------------------------------- FetchState
NoError == [url |-> NoUrl, error |-> "", traceback |-> <<>>]

\* FetchState(): the dataclass defaults
FetchState ==
    [completed_urls |-> <<>>, failed_urls |-> <<>>, last_url |-> NoUrl,
     error_info |-> NoError, total_planned |-> 0]

\* failed_urls is a dict: a sequence of (key, error) in insertion order
FailedKeys(st) == {st.failed_urls[n].url : n \in 1..Len(st.failed_urls)}
FailedOrder(st) == [n \in 1..Len(st.failed_urls) |-> st.failed_urls[n].url]
FailedError(st, u) ==
    LET n == CHOOSE m \in 1..Len(st.failed_urls) : st.failed_urls[m].url = u
    IN  st.failed_urls[n].error

should_skip(st, url_path) == IsIn(url_path, st.completed_urls)

\* del self.failed_urls[url_path]
DictDel(d, u) == SelectSeq(d, LAMBDA e : e.url # u)
\* self.failed_urls[url_path] = error: in place for a key the dict holds,
\* appended otherwise
DictSet(d, u, err) ==
    IF \E n \in 1..Len(d) : d[n].url = u
    THEN [n \in 1..Len(d) |-> IF d[n].url = u THEN [url |-> u, error |-> err] ELSE d[n]]
    ELSE Append(d, [url |-> u, error |-> err])

\* A mark_completed that appends without looking
mark_completed_Appends(st, url_path) ==
    [st EXCEPT !.completed_urls = Append(@, url_path), !.last_url = url_path,
               !.failed_urls = DictDel(@, url_path), !.error_info = NoError]

mark_completed(st, url_path) ==
    [st EXCEPT
       !.completed_urls = IF IsIn(url_path, @) THEN @ ELSE Append(@, url_path),
       !.last_url = url_path,
       !.failed_urls = DictDel(@, url_path),
       !.error_info = NoError]

\* A mark_failed that takes the key out of completed_urls
mark_failed_Uncompletes(st, url_path, error) ==
    [st EXCEPT
       !.completed_urls = SelectSeq(@, LAMBDA u : u # url_path),
       !.failed_urls = DictSet(@, url_path, error),
       !.error_info = [url |-> url_path, error |-> error, traceback |-> Traceback(error)]]

mark_failed(st, url_path, error) ==
    [st EXCEPT
       !.failed_urls = DictSet(@, url_path, error),
       !.error_info = [url |-> url_path, error |-> error, traceback |-> Traceback(error)]]

\* ------------------------------------------------------------------ JSON
\* A JSON value (and the Python value json.loads makes of it).  t is the type:
\* "null", "bool", "int", "str", "list", "dict"; s the text of a string, as a
\* tuple of tokens; n the number; kids the elements of a list (k = <<>>) or the
\* items of a dict in insertion order.
JNull == [t |-> "null", s |-> <<>>, n |-> 0, kids |-> <<>>]
JInt(n) == [t |-> "int", s |-> <<>>, n |-> n, kids |-> <<>>]
JStr(s) == [t |-> "str", s |-> s, n |-> 0, kids |-> <<>>]
JList(vals) ==
    [t |-> "list", s |-> <<>>, n |-> 0,
     kids |-> [m \in 1..Len(vals) |-> [k |-> <<>>, val |-> vals[m]]]]
JDict(items) == [t |-> "dict", s |-> <<>>, n |-> 0, kids |-> items]

\* data.get(key, default) of a dict
HasKey(d, key) == \E m \in 1..Len(d.kids) : d.kids[m].k = key
DictGet(d, key, default) ==
    IF HasKey(d, key)
    THEN d.kids[CHOOSE m \in 1..Len(d.kids) : d.kids[m].k = key].val
    ELSE default

\* The text of a url_path and of an error message
UrlStr(u) == JStr(URLS[u])
KeyOfStr(j) == CHOOSE u \in Keys : URLS[u] = j.s
MsgStr(e) == JStr(<<e>>)

\* asdict(state), as json.dumps serialises it
asdict(st) ==
    JDict(<<
      [k |-> <<"completed_urls">>,
       val |-> JList([m \in 1..Len(st.completed_urls) |-> UrlStr(st.completed_urls[m])])],
      [k |-> <<"failed_urls">>,
       val |-> JDict([m \in 1..Len(st.failed_urls) |->
                        [k |-> URLS[st.failed_urls[m].url],
                         val |-> MsgStr(st.failed_urls[m].error)]])],
      [k |-> <<"last_url">>,
       val |-> IF st.last_url = NoUrl THEN JNull ELSE UrlStr(st.last_url)],
      [k |-> <<"error_info">>,
       val |-> IF st.error_info = NoError THEN JNull
               ELSE JDict(<<
                 [k |-> <<"url">>, val |-> UrlStr(st.error_info.url)],
                 [k |-> <<"error">>, val |-> MsgStr(st.error_info.error)],
                 [k |-> <<"traceback">>, val |-> JStr(st.error_info.traceback)]>>)],
      [k |-> <<"total_planned">>, val |-> JInt(st.total_planned)]
    >>)

\* ------------------------------------------------------------------ files
\* What a path holds: nothing ("absent"), a file read_text cannot read
\* ("unreadable", OSError), bytes that are not UTF-8 ("undecodable"), or text.
\* Text that json.loads rejects (a truncated write among them) is NotJson.
NotJson == [t |-> "invalid", s |-> <<>>, n |-> 0, kids |-> <<>>]
Absent == [kind |-> "absent", json |-> NotJson]
Unreadable == [kind |-> "unreadable", json |-> NotJson]
Undecodable == [kind |-> "undecodable", json |-> NotJson]
Text(j) == [kind |-> "text", json |-> j]

\* A conversion that always gives the default
_safe_int_Default(val, default) == default
\* _safe_int(val, default)
_safe_int(val, default) ==
    CASE val.t = "null" -> default
      [] val.t = "int" -> val.n
      [] val.t = "bool" -> val.n
      [] OTHER -> default

\* The FetchState load_state builds from the parsed dict: the fields are the
\* Python values as loaded, whatever their type.
LoadedState(data) ==
    LET completed == DictGet(data, <<"completed_urls">>, JList(<<>>))
        failed == DictGet(data, <<"failed_urls">>, JDict(<<>>))
    IN  [completed_urls |-> IF completed.t = "list" THEN completed ELSE JList(<<>>),
         failed_urls |-> IF failed.t = "dict" THEN failed ELSE JDict(<<>>),
         last_url |-> DictGet(data, <<"last_url">>, JNull),
         error_info |-> DictGet(data, <<"error_info">>, JNull),
         total_planned |-> _safe_int(DictGet(data, <<"total_planned">>, JNull), 0)]

\* FetchState() in the same terms
EmptyLoaded ==
    [completed_urls |-> JList(<<>>), failed_urls |-> JDict(<<>>),
     last_url |-> JNull, error_info |-> JNull, total_planned |-> 0]

\* load_state(state_path): raised is the exception that escapes ("" if none)
load_state(file) ==
    CASE file.kind = "absent" -> [raised |-> "", state |-> EmptyLoaded]
      [] file.kind = "unreadable" -> [raised |-> "", state |-> EmptyLoaded]
      [] file.kind = "undecodable" -> [raised |-> "UnicodeDecodeError", state |-> EmptyLoaded]
      [] file.json.t = "invalid" -> [raised |-> "", state |-> EmptyLoaded]
      [] file.json.t # "dict" -> [raised |-> "AttributeError", state |-> EmptyLoaded]
      [] OTHER -> [raised |-> "", state |-> LoadedState(file.json)]

\* The loaded values as main() uses them (a snapshot save_state wrote)
FromLoaded(ls) ==
    [completed_urls |->
        [m \in 1..Len(ls.completed_urls.kids) |-> KeyOfStr(ls.completed_urls.kids[m].val)],
     failed_urls |->
        [m \in 1..Len(ls.failed_urls.kids) |->
            [url |-> CHOOSE u \in Keys : URLS[u] = ls.failed_urls.kids[m].k,
             error |-> ls.failed_urls.kids[m].val.s[1]]],
     last_url |-> IF ls.last_url.t = "null" THEN NoUrl ELSE KeyOfStr(ls.last_url),
     error_info |->
        IF ls.error_info.t = "null" THEN NoError
        ELSE [url |-> KeyOfStr(DictGet(ls.error_info, <<"url">>, JNull)),
              error |-> DictGet(ls.error_info, <<"error">>, JNull).s[1],
              traceback |-> DictGet(ls.error_info, <<"traceback">>, JNull).s],
     total_planned |-> ls.total_planned]

\* An artifact (.md) or its .md.tmp sibling: absent, a truncated write
\* ("partial") or the whole page ("full")
NoFile == "absent"
PartialPage == "partial"
Page == "full"
\* A disk on which exists() finds no file
Exists_Never(f) == FALSE
\* out_path.exists()
Exists(f) == f # "absent"

\* ------------------------------------------------------------- planning
\* Retry candidates taken without looking at the Universe
RetryCandidates_All(st, urls) == FailedOrder(st)

\* main(), "for u in state.failed_urls: if u in all_urls: to_fetch.append(u)"
RetryCandidates(st, urls) == SelectSeq(FailedOrder(st), LAMBDA u : IsIn(u, urls))

\* main(), "for u in all_urls: ..." from index n on; disk is the artifact files
RECURSIVE PlanLoop(_, _, _, _, _, _)
PlanLoop(urls, n, st, tf, sy, disk) ==
    IF n > Len(urls) THEN [state |-> st, to_fetch |-> tf, synced |-> sy]
    ELSE LET u == urls[n] IN
         IF IsIn(u, tf) THEN PlanLoop(urls, n + 1, st, tf, sy, disk)
         ELSE IF should_skip(st, u) THEN PlanLoop(urls, n + 1, st, tf, sy, disk)
         ELSE IF Exists(disk[_url_to_output_path(u)])
              THEN PlanLoop(urls, n + 1, mark_completed(st, u), tf, sy + 1, disk)
         ELSE PlanLoop(urls, n + 1, st, Append(tf, u), sy, disk)

\* A planner whose loop over the Universe does not know the retry candidates
Plan_RetriesApart(st, urls, disk) ==
    LET plan == PlanLoop(urls, 1, st, <<>>, 0, disk)
    IN  [plan EXCEPT !.to_fetch = RetryCandidates(st, urls) \o @]

\* A planner that skips nothing: every page of the Universe is fetched again
Plan_FetchAll(st, urls, disk) == [state |-> st, to_fetch |-> urls, synced |-> 0]

Plan(st, urls, disk) == PlanLoop(urls, 1, st, RetryCandidates(st, urls), 0, disk)

\* A total_planned that counts the work list
TotalPlanned_WorkList(urls, tf) == Len(tf)

\* main(), "state.total_planned = len(all_urls)"
TotalPlanned(urls, tf) == Len(urls)

\* ------------------------------------------------------------------ state
VARIABLES
    pc,           \* where main() is; "Idle": no process is running
    wphase,       \* where the write in progress is: "none", "begin" (before
                  \* write_text), "writing" (the .tmp is partly written),
                  \* "written" (before replace)
    run,          \* how many times main() was started
    outcome,      \* how the last process ended
    exit_status,  \* its exit status
    state,        \* main()'s FetchState
    all_urls,     \* main()'s all_urls
    to_fetch,     \* main()'s to_fetch
    i,            \* the index of the for loop over to_fetch
    synced,       \* main()'s synced
    orphan_count, \* main()'s orphan_count
    state_file,   \* .fetch_state.json
    state_tmp,    \* .fetch_state.json.tmp
    art,          \* the .md file at each output path
    art_tmp,      \* the .md.tmp file at each output path
    faults,       \* the disruptions so far
    invoked,      \* the url_paths fetch_and_save_one was called with, this run
    ld,           \* what load_state returned: the exception, the state
    loaded,       \* the state load_state returned, this run, as main() uses it
    sig,          \* where main() was when Ctrl+C came, this run
    prev          \* the previous process: its all_urls, how it ended, the
                  \* url_path it was at when Ctrl+C came; and the .md files
                  \* on disk when this process started

fvars == <<pc, wphase, run, outcome, exit_status, state, all_urls, to_fetch, i,
           synced, orphan_count, state_file, state_tmp, art, art_tmp, faults,
           invoked, ld, loaded, sig, prev>>

mem == <<state, all_urls, to_fetch, i, synced, orphan_count>>
disk == <<state_file, state_tmp, art, art_tmp>>
ghost == <<invoked, ld, loaded, sig, prev>>
proc == <<run, outcome, exit_status>>

\* ------------------------------------------ translate_python_docs.py, state
\* The .md files under PYTHON_DOCS_DIR, sorted, by _path_to_key; and the
\* paragraphs of each as fetched: "en" is English text, "ru" Russian text.
MD_FILES == << <<"howto", "a.md">>, <<"library", "b.md">> >>
MD_TEXT == << <<"en">>, <<"en", "en">> >>
MdFiles == 1..Len(MD_FILES)
_path_to_key(f) == MD_FILES[f]

VARIABLES
    t_pc,           \* where main() is; "Idle": no process is running
    t_run,          \* how many times main() was started
    t_exit,         \* the exit status of the last process
    t_completed,    \* main()'s completed
    t_to_translate, \* main()'s to_translate
    t_i,            \* the index of the for loop over to_translate
    t_result,       \* translate_md_file's result, the paragraphs done so far
    t_attempt,      \* _translate_with_retry's attempt
    t_last_err,     \* _translate_with_retry's last_err ("" is None)
    t_state_file,   \* .translate_state.json
    t_md,           \* the paragraphs of each .md file on disk
    t_call,         \* what the call of translator.translate submitted to the
                    \* executor does ("": no call is awaited)
    t_hung,         \* the worker threads left behind by a shutdown(wait=False)
                    \* that are still inside translator.translate
    t_sleeps,       \* the time.sleep calls of the latest _translate_with_retry,
                    \* in tenths of a second
    free_mb,        \* shutil.disk_usage(PYTHON_DOCS_DIR).free, in MB
    t_log           \* per file, this run: the calls of translator.translate,
                    \* how many raised a network error or timed out, whether
                    \* one raised another exception, and whether a call
                    \* was made after that

tvars == <<t_pc, t_run, t_exit, t_completed, t_to_translate, t_i, t_result,
           t_attempt, t_last_err, t_state_file, t_md, t_call, t_hung, t_sleeps,
           free_mb, t_log>>

\* ---------------------------------------------- batch_md_to_pdf.py, state
VARIABLES
    b_pc,      \* where main() is: "Idle" (not started), "loop", "ended"
    b_files,   \* sorted(md_files)
    b_i,       \* the index of the for loop over them
    b_failed,  \* main()'s failed
    b_pdf,     \* the .md files whose .pdf is on disk
    b_exit     \* the exit status

bvars == <<b_pc, b_files, b_i, b_failed, b_pdf, b_exit>>

\* No conversion was ever started
BatchIdle ==
    /\ b_pc = "Idle"
    /\ b_files = <<>>
    /\ b_i = 0
    /\ b_failed = 0
    /\ b_pdf = {}
    /\ b_exit = 0

vars == <<fvars, tvars, bvars>>

NoCalls == [calls |-> 0, raised |-> 0, fatal |-> FALSE, again |-> FALSE]

MIN_FREE_MB == 100

\* No translation was ever started
TranslateAtRest ==
    /\ t_pc = "Idle"
    /\ t_run = 0
    /\ t_exit = 0
    /\ t_completed = {}
    /\ t_to_translate = <<>>
    /\ t_i = 0
    /\ t_result = <<>>
    /\ t_attempt = 0
    /\ t_last_err = ""
    /\ t_state_file = Absent
    /\ t_md = MD_TEXT
    /\ t_call = ""
    /\ t_hung = 0
    /\ t_sleeps = <<>>
    /\ t_log = [f \in MdFiles |-> NoCalls]

\* No translation was ever started, and the disk has room
TranslateIdle == TranslateAtRest /\ free_mb = 2 * MIN_FREE_MB
NoPrev ==
    [urls |-> <<>>, outcome |-> "none", cur |-> NoUrl, sig |-> "none",
     art |-> [p \in Paths |-> NoFile]]

\* No fetch was ever started; some Artifacts may be on disk
FetchInit ==
    /\ pc = "Idle"
    /\ wphase = "none"
    /\ run = 0
    /\ outcome = "none"
    /\ exit_status = 0
    /\ state = FetchState
    /\ all_urls = <<>>
    /\ to_fetch = <<>>
    /\ i = 0
    /\ synced = 0
    /\ orphan_count = 0
    /\ state_file = Absent
    /\ state_tmp = Absent
    /\ art \in [Paths -> {NoFile, Page}]
    /\ art_tmp = [p \in Paths |-> NoFile]
    /\ faults = 0
    /\ invoked = <<>>
    /\ ld = [raised |-> "", state |-> EmptyLoaded]
    /\ loaded = FetchState
    /\ sig = "none"
    /\ prev = NoPrev

Init == FetchInit /\ TranslateIdle /\ BatchIdle

\* The process ends: sys.exit(status), the end of main(), or an exception
\* nothing catches (the interpreter prints it and exits with status 1).
Terminate(status, how) ==
    /\ pc' = "Idle"
    /\ wphase' = "none"
    /\ exit_status' = status
    /\ outcome' = how

\* The url_path the for loop is at
Current == to_fetch[i]

\* ---------------------------------------------------------------- actions
\* python fetch_python_docs.py: a new process, with nothing in memory
Start ==
    /\ pc = "Idle"
    /\ run < MaxRuns
    /\ run' = run + 1
    /\ pc' = "Sweeping"
    /\ prev' = [urls |-> all_urls, outcome |-> outcome,
                cur |-> IF outcome = "interrupted" THEN to_fetch[i] ELSE NoUrl,
                sig |-> sig,
                art |-> art]
    /\ sig' = "none"
    /\ state' = FetchState
    /\ all_urls' = <<>>
    /\ to_fetch' = <<>>
    /\ i' = 0
    /\ synced' = 0
    /\ orphan_count' = 0
    /\ invoked' = <<>>
    /\ loaded' = FetchState
    /\ UNCHANGED <<wphase, outcome, exit_status, disk, faults, ld>>
    /\ UNCHANGED <<tvars, bvars>>

\* kill -9, power loss: the process stops where it is; the disk stays as it is
Kill ==
    /\ pc # "Idle"
    /\ faults < MaxFaults
    /\ faults' = faults + 1
    /\ Terminate(137, "killed")
    /\ UNCHANGED <<run, mem, disk, ghost>>
    /\ UNCHANGED <<tvars, bvars>>

\* The .tmp files _cleanup_orphan_tmp_files finds
OrphanTmps == {p \in Paths : Exists(art_tmp[p])}

\* A sweep that leaves the .md.tmp files and counts what it found
Sweep_KeepsArtifacts ==
    /\ pc = "Sweeping"
    /\ state_tmp' = Absent
    /\ orphan_count' = Cardinality(OrphanTmps) + (IF state_tmp # Absent THEN 1 ELSE 0)
    /\ pc' = "Loading"
    /\ UNCHANGED <<wphase, proc, state, all_urls, to_fetch, i, synced,
                   state_file, art, art_tmp, faults, ghost>>
    /\ UNCHANGED <<tvars, bvars>>

\* _cleanup_orphan_tmp_files(OUTPUT_DIR): every unlink() either removes the
\* file or raises OSError, which is passed over (stuck: the files it fails on)
Sweep ==
    /\ pc = "Sweeping"
    /\ \E stuck \in SUBSET OrphanTmps, state_stuck \in BOOLEAN :
         LET nstuck == Cardinality(stuck) + (IF state_stuck THEN 1 ELSE 0)
             nstate == IF state_tmp # Absent /\ ~state_stuck THEN 1 ELSE 0
         IN  /\ state_stuck => state_tmp # Absent
             /\ faults + nstuck <= MaxFaults
             /\ faults' = faults + nstuck
             /\ art_tmp' = [p \in Paths |-> IF p \in stuck THEN art_tmp[p] ELSE NoFile]
             /\ state_tmp' = IF state_stuck THEN state_tmp ELSE Absent
             /\ orphan_count' = Cardinality(OrphanTmps \ stuck) + nstate
    /\ pc' = "Loading"
    /\ UNCHANGED <<wphase, proc, state, all_urls, to_fetch, i, synced,
                   state_file, art, ghost>>
    /\ UNCHANGED <<tvars, bvars>>

\* state = load_state(state_path); an exception of load_state ends main()
Load ==
    /\ pc = "Loading"
    /\ ld' = load_state(state_file)
    /\ IF ld'.raised # ""
       THEN /\ Terminate(1, "crashed")
            /\ UNCHANGED <<state, loaded>>
       ELSE /\ state' = FromLoaded(ld'.state)
            /\ loaded' = FromLoaded(ld'.state)
            /\ pc' = "Universe"
            /\ UNCHANGED <<wphase, exit_status, outcome>>
    /\ UNCHANGED <<run, all_urls, to_fetch, i, synced, orphan_count, disk,
                   faults, invoked, sig, prev>>
    /\ UNCHANGED <<tvars, bvars>>

\* A loop that takes the work list from its end
Advance_Reversed(n, tf) ==
    IF n <= Len(tf)
    THEN /\ pc' = "step"
         /\ wphase' = "none"
         /\ invoked' = Append(invoked, tf[Len(tf) + 1 - n])
         /\ UNCHANGED <<exit_status, outcome>>
    ELSE /\ Terminate(0, "done")
         /\ UNCHANGED invoked

\* The loop goes to its next url_path, or main() ends after the loop
Advance(n, tf) ==
    IF n <= Len(tf)
    THEN /\ pc' = "step"
         /\ wphase' = "none"
         /\ invoked' = Append(invoked, tf[n])
         /\ UNCHANGED <<exit_status, outcome>>
    ELSE /\ Terminate(0, "done")
         /\ UNCHANGED invoked

\* fetch_page(CONTENTS_URL) and _extract_doc_urls_from_contents return
\* sorted(urls); then the planning of to_fetch.  With synced > 0 save_state
\* comes next, else total_planned is set and the loop starts.
Planning ==
    /\ pc = "Universe"
    /\ \E S \in SUBSET Keys :
         LET urls == Sorted(S)
             plan == Plan(state, urls, art)
         IN  /\ all_urls' = urls
             /\ to_fetch' = plan.to_fetch
             /\ synced' = plan.synced
             /\ IF plan.synced > 0
                THEN /\ state' = plan.state
                     /\ pc' = "save_sync"
                     /\ wphase' = "begin"
                     /\ i' = 0
                     /\ UNCHANGED <<exit_status, outcome, invoked>>
                ELSE /\ state' = [plan.state EXCEPT
                                        !.total_planned = TotalPlanned(urls, plan.to_fetch)]
                     /\ i' = 1
                     /\ Advance(1, plan.to_fetch)
    /\ UNCHANGED <<run, orphan_count, disk, faults, ld, loaded, sig, prev>>
    /\ UNCHANGED <<tvars, bvars>>

\* fetch_page(CONTENTS_URL) raises HTTPError, URLError or OSError:
\* state.mark_failed("contents.html", str(e), ...), then save_state
UniverseFails ==
    /\ pc = "Universe"
    /\ state' = mark_failed(state, ContentsKey, ErrContents)
    /\ pc' = "save_univ"
    /\ wphase' = "begin"
    /\ UNCHANGED <<proc, all_urls, to_fetch, i, synced, orphan_count, disk, faults, ghost>>
    /\ UNCHANGED <<tvars, bvars>>

\* _extract_doc_urls_from_contents raises ImportError (no beautifulsoup4):
\* no except clause of main() takes it
UniverseCrash ==
    /\ pc = "Universe"
    /\ Terminate(1, "universe_crashed")
    /\ UNCHANGED <<run, mem, disk, faults, ghost>>
    /\ UNCHANGED <<tvars, bvars>>

\* ------------------------------------------------- the write through a .tmp
\* A destination and its .tmp sibling: [dest, tmp].
\* A write_text on the destination itself
write_text_direct(f, part) == [f EXCEPT !.dest = part]
\* tmp_path.write_text(content), while it writes: the .tmp holds a part
write_text_begin(f, part) == [f EXCEPT !.tmp = part]
\* tmp_path.write_text(content) returned
write_text_end(f, content) == [f EXCEPT !.tmp = content]
\* A rename that loses the new content: the destination stays as it was
replace_Lost(f, none) == [f EXCEPT !.tmp = none]
\* tmp_path.replace(path): the rename
replace(f, none) == [dest |-> f.tmp, tmp |-> none]
\* finally: if tmp_path.exists(): tmp_path.unlink(missing_ok=True)
finally_unlink(f, none) == [f EXCEPT !.tmp = none]

StateFiles == [dest |-> state_file, tmp |-> state_tmp]
ArtFiles(p) == [dest |-> art[p], tmp |-> art_tmp[p]]
SetStateFiles(f) == state_file' = f.dest /\ state_tmp' = f.tmp
SetArtFiles(p, f) ==
    /\ art' = [art EXCEPT ![p] = f.dest]
    /\ art_tmp' = [art_tmp EXCEPT ![p] = f.tmp]

SavePcs == {"save_univ", "save_sync", "save_ok", "save_err", "save_fatal", "save_int"}

\* save_state, tmp_path.write_text(content) under way
SaveWriteBegin ==
    /\ pc \in SavePcs
    /\ wphase = "begin"
    /\ SetStateFiles(write_text_begin(StateFiles, Text(NotJson)))
    /\ wphase' = "writing"
    /\ UNCHANGED <<pc, proc, mem, art, art_tmp, faults, ghost>>
    /\ UNCHANGED <<tvars, bvars>>

\* save_state, tmp_path.write_text(content) done
SaveWriteEnd ==
    /\ pc \in SavePcs
    /\ wphase = "writing"
    /\ SetStateFiles(write_text_end(StateFiles, Text(asdict(state))))
    /\ wphase' = "written"
    /\ UNCHANGED <<pc, proc, mem, art, art_tmp, faults, ghost>>
    /\ UNCHANGED <<tvars, bvars>>

\* save_state returns, and main() goes on from the call
SaveReplace ==
    /\ pc \in SavePcs
    /\ wphase = "written"
    /\ SetStateFiles(replace(StateFiles, Absent))
    /\ CASE pc = "save_univ" ->
              \* sys.exit(1)
              /\ Terminate(1, "universe_failed")
              /\ UNCHANGED <<state, i, invoked>>
         [] pc = "save_sync" ->
              \* state.total_planned = len(all_urls); the loop starts
              /\ state' = [state EXCEPT !.total_planned = TotalPlanned(all_urls, to_fetch)]
              /\ i' = 1
              /\ Advance(1, to_fetch)
         [] pc \in {"save_ok", "save_err"} ->
              /\ i' = i + 1
              /\ Advance(i + 1, to_fetch)
              /\ UNCHANGED state
         [] pc = "save_fatal" ->
              \* raise
              /\ Terminate(1, "fatal")
              /\ UNCHANGED <<state, i, invoked>>
         [] pc = "save_int" ->
              \* sys.exit(130)
              /\ Terminate(130, "interrupted")
              /\ UNCHANGED <<state, i, invoked>>
    /\ UNCHANGED <<run, all_urls, to_fetch, synced, orphan_count, art, art_tmp,
                   faults, ld, loaded, sig, prev>>
    /\ UNCHANGED <<tvars, bvars>>

\* write_text or replace of save_state raises OSError: the finally clause
\* removes the .tmp.  Inside the try of the loop the except OSError clause
\* takes it; anywhere else nothing does.
SaveFails ==
    /\ pc \in SavePcs
    /\ wphase \in {"begin", "writing", "written"}
    /\ faults < MaxFaults
    /\ faults' = faults + 1
    /\ SetStateFiles(finally_unlink(StateFiles, Absent))
    /\ IF pc = "save_ok"
       THEN /\ state' = mark_failed(state, Current, ErrDisk)
            /\ pc' = "save_err"
            /\ wphase' = "begin"
            /\ UNCHANGED <<exit_status, outcome>>
       ELSE /\ Terminate(1, "crashed")
            /\ UNCHANGED state
    /\ UNCHANGED <<run, all_urls, to_fetch, i, synced, orphan_count, art,
                   art_tmp, ghost>>
    /\ UNCHANGED <<tvars, bvars>>

\* ------------------------------------------------------------- one url_path
\* fetch_and_save_one: fetch_page and html_to_markdown returned
StepOk ==
    /\ pc = "step"
    /\ pc' = "write_art"
    /\ wphase' = "begin"
    /\ UNCHANGED <<proc, mem, disk, faults, ghost>>
    /\ UNCHANGED <<tvars, bvars>>

\* fetch_page raises HTTPError, URLError or OSError: except clause of line 377
StepFails ==
    /\ pc = "step"
    /\ state' = mark_failed(state, Current, ErrFetch)
    /\ pc' = "save_err"
    /\ wphase' = "begin"
    /\ UNCHANGED <<proc, all_urls, to_fetch, i, synced, orphan_count, disk, faults, ghost>>
    /\ UNCHANGED <<tvars, bvars>>

\* fetch_and_save_one raises any other Exception: except clause of line 388
StepFatal ==
    /\ pc = "step"
    /\ state' = mark_failed(state, Current, ErrFatal)
    /\ pc' = "save_fatal"
    /\ wphase' = "begin"
    /\ UNCHANGED <<proc, all_urls, to_fetch, i, synced, orphan_count, disk, faults, ghost>>
    /\ UNCHANGED <<tvars, bvars>>

\* fetch_and_save_one, tmp_path.write_text(md) under way
ArtWriteBegin ==
    /\ pc = "write_art"
    /\ wphase = "begin"
    /\ LET p == _url_to_output_path(Current)
       IN  SetArtFiles(p, write_text_begin(ArtFiles(p), PartialPage))
    /\ wphase' = "writing"
    /\ UNCHANGED <<pc, proc, mem, state_file, state_tmp, faults, ghost>>
    /\ UNCHANGED <<tvars, bvars>>

\* fetch_and_save_one, tmp_path.write_text(md) done
ArtWriteEnd ==
    /\ pc = "write_art"
    /\ wphase = "writing"
    /\ LET p == _url_to_output_path(Current)
       IN  SetArtFiles(p, write_text_end(ArtFiles(p), Page))
    /\ wphase' = "written"
    /\ UNCHANGED <<pc, proc, mem, state_file, state_tmp, faults, ghost>>
    /\ UNCHANGED <<tvars, bvars>>

\* fetch_and_save_one, tmp_path.replace(output_path), and it returns
ArtReplace ==
    /\ pc = "write_art"
    /\ wphase = "written"
    /\ LET p == _url_to_output_path(Current)
       IN  SetArtFiles(p, replace(ArtFiles(p), NoFile))
    /\ pc' = "post_step"
    /\ wphase' = "none"
    /\ UNCHANGED <<proc, mem, state_file, state_tmp, faults, ghost>>
    /\ UNCHANGED <<tvars, bvars>>

\* write_text or replace of fetch_and_save_one raises OSError: the finally
\* clause removes the .tmp, the except clause of line 377 takes the error
ArtFails ==
    /\ pc = "write_art"
    /\ wphase \in {"begin", "writing", "written"}
    /\ faults < MaxFaults
    /\ faults' = faults + 1
    /\ LET p == _url_to_output_path(Current)
       IN  SetArtFiles(p, finally_unlink(ArtFiles(p), NoFile))
    /\ state' = mark_failed(state, Current, ErrDisk)
    /\ pc' = "save_err"
    /\ wphase' = "begin"
    /\ UNCHANGED <<proc, all_urls, to_fetch, i, synced, orphan_count,
                   state_file, state_tmp, ghost>>
    /\ UNCHANGED <<tvars, bvars>>

\* state.mark_completed(url_path); save_state comes next
MarkCompleted ==
    /\ pc = "post_step"
    /\ state' = mark_completed(state, Current)
    /\ pc' = "save_ok"
    /\ wphase' = "begin"
    /\ UNCHANGED <<proc, all_urls, to_fetch, i, synced, orphan_count, disk, faults, ghost>>
    /\ UNCHANGED <<tvars, bvars>>

\* A handler that records the url_path in flight as failed
Interrupt_MarksFailed ==
    /\ pc \in {"step", "write_art", "post_step", "save_ok"}
    /\ faults < MaxFaults
    /\ faults' = faults + 1
    /\ state' = mark_failed(state, Current, "KeyboardInterrupt")
    /\ pc' = "save_int"
    /\ wphase' = "begin"
    /\ sig' = pc
    /\ UNCHANGED <<proc, all_urls, to_fetch, i, synced, orphan_count, disk,
                   invoked, ld, loaded, prev>>
    /\ UNCHANGED <<tvars, bvars>>

\* A handler that saves and lets the loop go on
Interrupt_Continues ==
    /\ pc \in {"step", "write_art", "post_step", "save_ok"}
    /\ faults < MaxFaults
    /\ faults' = faults + 1
    /\ IF pc = "write_art"
       THEN LET p == _url_to_output_path(Current)
            IN  SetArtFiles(p, finally_unlink(ArtFiles(p), NoFile))
       ELSE UNCHANGED <<art, art_tmp>>
    /\ IF pc = "save_ok"
       THEN SetStateFiles(finally_unlink(StateFiles, Absent))
       ELSE UNCHANGED <<state_file, state_tmp>>
    /\ pc' = "save_err"
    /\ wphase' = "begin"
    /\ sig' = pc
    /\ UNCHANGED <<proc, mem, invoked, ld, loaded, prev>>
    /\ UNCHANGED <<tvars, bvars>>

\* Ctrl+C inside the try of the loop: KeyboardInterrupt unwinds through the
\* finally clause of the write under way, to the except clause of line 372,
\* where save_state comes next
Interrupt ==
    /\ pc \in {"step", "write_art", "post_step", "save_ok"}
    /\ faults < MaxFaults
    /\ faults' = faults + 1
    /\ IF pc = "write_art"
       THEN LET p == _url_to_output_path(Current)
            IN  SetArtFiles(p, finally_unlink(ArtFiles(p), NoFile))
       ELSE UNCHANGED <<art, art_tmp>>
    /\ IF pc = "save_ok"
       THEN SetStateFiles(finally_unlink(StateFiles, Absent))
       ELSE UNCHANGED <<state_file, state_tmp>>
    /\ pc' = "save_int"
    /\ wphase' = "begin"
    /\ sig' = pc
    /\ UNCHANGED <<proc, mem, invoked, ld, loaded, prev>>
    /\ UNCHANGED <<tvars, bvars>>

Next ==
    \/ Start
    \/ Kill
    \/ Sweep
    \/ Load
    \/ Planning
    \/ UniverseFails
    \/ UniverseCrash
    \/ SaveWriteBegin
    \/ SaveWriteEnd
    \/ SaveReplace
    \/ SaveFails
    \/ StepOk
    \/ StepFails
    \/ StepFatal
    \/ ArtWriteBegin
    \/ ArtWriteEnd
    \/ ArtReplace
    \/ ArtFails
    \/ MarkCompleted
    \/ Interrupt

Spec == Init /\ [][Next]_vars

\* ------------------------------------------------ translate_python_docs.py
TRANSLATE_RETRIES == 3
\* SLEEP_BETWEEN = 0.5, in tenths of a second
SLEEP_BETWEEN == 5
\* How many abandoned calls of translator.translate may be running at once
MaxHung == 2
\* CYRILLIC_THRESHOLD = 0.35, in hundredths
CYRILLIC_THRESHOLD == 35

\* What one call of translator.translate does: it returns a str, returns
\* something that is no str, does not return within REQUEST_TIMEOUT, raises a
\* network error, raises some other Exception (a bug of the library, a
\* malformed reply).
TranslatorOutcomes == {"str", "none", "timeout", "network", "unexpected"}
Retryable == {"timeout", "network"}

\* json.dumps({"completed": sorted(completed)})
translate_snapshot(completed) ==
    LET keys == Sorted(completed)
    IN  JDict(<<[k |-> <<"completed">>,
                 val |-> JList([m \in 1..Len(keys) |-> JStr(_path_to_key(keys[m]))])]>>)

\* load_state(state_path) of translate_python_docs.py: the files whose key
\* is in the set it returns; raised is the exception that escapes
translate_load_state(file) ==
    CASE file.kind \in {"absent", "unreadable"} -> [raised |-> "", completed |-> {}]
      [] file.kind = "undecodable" -> [raised |-> "UnicodeDecodeError", completed |-> {}]
      [] file.json.t # "dict" -> [raised |-> "", completed |-> {}]
      [] OTHER ->
           LET completed == DictGet(file.json, <<"completed">>, JList(<<>>))
           IN  [raised |-> "",
                completed |->
                  IF completed.t # "list" THEN {}
                  ELSE {f \in MdFiles : \E m \in 1..Len(completed.kids) :
                            completed.kids[m].val = JStr(_path_to_key(f))}]

\* _cyrillic_ratio(content) >= CYRILLIC_THRESHOLD, paragraphs of one length
_is_likely_translated(content) ==
    /\ content # <<>>
    /\ 100 * Cardinality({m \in 1..Len(content) : content[m] = "ru"})
         >= CYRILLIC_THRESHOLD * Len(content)

\* _check_disk_space(root): "exit" is sys.exit(1), "warning" a print; raises
\* says that shutil.disk_usage raises OSError
_check_disk_space(free, raises) ==
    CASE raises -> "warning"
      [] free < MIN_FREE_MB -> "exit"
      [] free < MIN_FREE_MB * 2 -> "warning"
      [] OTHER -> "ok"

\* A future.result() with no timeout: it waits for the call to return
future_result_NoDeadline(call) == IF call = "timeout" THEN "blocked" ELSE call

\* future.result(timeout=REQUEST_TIMEOUT): the str or the None the call
\* returned, the exception it raised, or FuturesTimeoutError
future_result(call) == IF call = "timeout" THEN "FuturesTimeoutError" ELSE call

\* A sleep of SLEEP_BETWEEN whatever the attempt
Backoff_Constant(attempt) == SLEEP_BETWEEN

\* time.sleep(SLEEP_BETWEEN * (attempt + 1))
Backoff(attempt) == SLEEP_BETWEEN * (attempt + 1)

T_Current == t_to_translate[t_i]

\* The process ends with this status once the worker threads left behind
\* have ended: the interpreter joins them at exit
T_Exit(status, hung) ==
    /\ t_exit' = status
    /\ t_pc' = IF hung > 0 THEN "exiting" ELSE "Idle"

\* The for loop goes to its n-th Item, or main() ends
T_Continue(n) ==
    /\ t_i' = n
    /\ IF n <= Len(t_to_translate)
       THEN t_pc' = "file" /\ t_exit' = t_exit
       ELSE T_Exit(0, t_hung)

\* python translate_python_docs.py: _check_disk_space lets the run start;
\* load_state, md_files, to_translate
T_Start ==
    /\ t_pc = "Idle"
    /\ t_run < MaxRuns
    /\ \E raises \in BOOLEAN : _check_disk_space(free_mb, raises) # "exit"
    /\ t_run' = t_run + 1
    /\ LET r == translate_load_state(t_state_file)
           todo == SelectSeq(Sorted(MdFiles), LAMBDA f : f \notin r.completed)
       IN  IF r.raised # ""
           THEN /\ t_pc' = "Idle"
                /\ t_exit' = 1
                /\ UNCHANGED <<t_completed, t_to_translate, t_i>>
           ELSE /\ t_completed' = r.completed
                /\ t_to_translate' = todo
                /\ t_i' = 1
                /\ IF todo # <<>>
                   THEN t_pc' = "file" /\ t_exit' = t_exit
                   ELSE t_pc' = "Idle" /\ t_exit' = 0
    /\ t_log' = [f \in MdFiles |-> NoCalls]
    /\ t_result' = <<>>
    /\ t_attempt' = 0
    /\ t_last_err' = ""
    /\ t_sleeps' = <<>>
    /\ UNCHANGED <<t_state_file, t_md, t_call, t_hung, free_mb>>
    /\ UNCHANGED <<fvars, bvars>>

\* _check_disk_space: less than MIN_FREE_MB free, sys.exit(1)
T_NoSpace ==
    /\ t_pc = "Idle"
    /\ t_run < MaxRuns
    /\ _check_disk_space(free_mb, FALSE) = "exit"
    /\ t_run' = t_run + 1
    /\ t_exit' = 1
    /\ UNCHANGED <<t_pc, t_completed, t_to_translate, t_i, t_result, t_attempt,
                   t_last_err, t_state_file, t_md, t_call, t_hung, t_sleeps,
                   free_mb, t_log>>
    /\ UNCHANGED <<fvars, bvars>>

\* translate_md_file reads the file: already translated (return True, then
\* completed.add), or its paragraphs are to be translated
T_Open ==
    /\ t_pc = "file"
    /\ IF _is_likely_translated(t_md[T_Current])
       THEN /\ t_completed' = t_completed \cup {T_Current}
            /\ t_pc' = "save"
       ELSE /\ t_pc' = "translate"
            /\ UNCHANGED t_completed
    /\ t_result' = <<>>
    /\ t_attempt' = 0
    /\ t_last_err' = ""
    /\ UNCHANGED <<t_run, t_exit, t_to_translate, t_i, t_state_file, t_md,
                   t_call, t_hung, t_sleeps, free_mb, t_log>>
    /\ UNCHANGED <<fvars, bvars>>

\* path.read_text raises: main() prints the error and goes on
T_ReadFails ==
    /\ t_pc = "file"
    /\ T_Continue(t_i + 1)
    /\ UNCHANGED <<t_run, t_completed, t_to_translate, t_result, t_attempt,
                   t_last_err, t_state_file, t_md, t_call, t_hung, t_sleeps,
                   free_mb, t_log>>
    /\ UNCHANGED <<fvars, bvars>>

\* _translate_with_retry returns x for the paragraph: result.append(x)
T_Deliver(x) ==
    /\ t_result' = Append(t_result, x)
    /\ t_attempt' = 0
    /\ t_pc' = IF Len(t_result) + 1 = Len(t_md[T_Current]) THEN "write" ELSE "translate"

\* ex = ThreadPoolExecutor(max_workers=1); ex.submit(translator.translate,
\* text): a worker thread makes the call, main() waits in future.result
T_Submit ==
    /\ t_pc = "translate"
    /\ \E o \in TranslatorOutcomes :
         /\ o = "timeout" => t_hung < MaxHung
         /\ t_call' = o
    /\ t_pc' = "waiting"
    /\ t_sleeps' = IF t_attempt = 0 THEN <<>> ELSE t_sleeps
    /\ UNCHANGED <<t_run, t_exit, t_completed, t_to_translate, t_i, t_result,
                   t_attempt, t_last_err, t_state_file, t_md, t_hung, free_mb, t_log>>
    /\ UNCHANGED <<fvars, bvars>>

\* The rest of one turn of the for loop of _translate_with_retry:
\* future.result, the except clauses with their sleep, and the finally
\* clause, ex.shutdown(wait=False), which leaves a call that has not
\* returned running in its thread
T_Translate ==
    /\ t_pc = "waiting"
    /\ future_result(t_call) # "blocked"
    /\ LET o == future_result(t_call)
           text == t_md[T_Current][Len(t_result) + 1]
           log == t_log[T_Current]
       IN  /\ t_log' = [t_log EXCEPT ![T_Current] =
                 [calls |-> log.calls + 1,
                  raised |-> log.raised + (IF t_call \in Retryable THEN 1 ELSE 0),
                  fatal |-> log.fatal \/ o = "unexpected",
                  again |-> log.again \/ log.fatal]]
           /\ CASE o = "str" -> T_Deliver("ru") /\ t_last_err' = "" /\ UNCHANGED t_sleeps
                [] o = "none" -> T_Deliver(text) /\ t_last_err' = "" /\ UNCHANGED t_sleeps
                [] OTHER ->
                     IF t_attempt < TRANSLATE_RETRIES - 1
                     THEN /\ t_attempt' = t_attempt + 1
                          /\ t_last_err' = o
                          /\ t_sleeps' = Append(t_sleeps, Backoff(t_attempt))
                          /\ t_pc' = "translate"
                          /\ UNCHANGED t_result
                     ELSE T_Deliver(text) /\ t_last_err' = "" /\ UNCHANGED t_sleeps
           /\ t_hung' = IF o = "FuturesTimeoutError" THEN t_hung + 1 ELSE t_hung
    /\ t_call' = ""
    /\ UNCHANGED <<t_run, t_exit, t_completed, t_to_translate, t_i, t_state_file,
                   t_md, free_mb>>
    /\ UNCHANGED <<fvars, bvars>>

\* A call of translator.translate that was left behind returns or raises in
\* its thread; nobody reads its result
T_WorkerEnds ==
    /\ t_hung > 0
    /\ t_hung' = t_hung - 1
    /\ t_pc' = IF t_pc = "exiting" /\ t_hung = 1 THEN "Idle" ELSE t_pc
    /\ UNCHANGED <<t_run, t_exit, t_completed, t_to_translate, t_i, t_result,
                   t_attempt, t_last_err, t_state_file, t_md, t_call, t_sleeps,
                   free_mb, t_log>>
    /\ UNCHANGED <<fvars, bvars>>

\* tmp_path.write_text, tmp_path.replace(path); return True; completed.add
T_Write ==
    /\ t_pc = "write"
    /\ t_md' = [t_md EXCEPT ![T_Current] = t_result]
    /\ t_completed' = t_completed \cup {T_Current}
    /\ t_pc' = "save"
    /\ UNCHANGED <<t_run, t_exit, t_to_translate, t_i, t_result, t_attempt,
                   t_last_err, t_state_file, t_call, t_hung, t_sleeps, free_mb, t_log>>
    /\ UNCHANGED <<fvars, bvars>>

\* The write raises OSError: the .tmp is removed, main() prints and goes on
T_WriteFails ==
    /\ t_pc = "write"
    /\ T_Continue(t_i + 1)
    /\ UNCHANGED <<t_run, t_completed, t_to_translate, t_result, t_attempt,
                   t_last_err, t_state_file, t_md, t_call, t_hung, t_sleeps,
                   free_mb, t_log>>
    /\ UNCHANGED <<fvars, bvars>>

\* save_state(completed, state_path), then the next Item
T_Save ==
    /\ t_pc = "save"
    /\ t_state_file' = Text(translate_snapshot(t_completed))
    /\ T_Continue(t_i + 1)
    /\ UNCHANGED <<t_run, t_completed, t_to_translate, t_result, t_attempt,
                   t_last_err, t_md, t_call, t_hung, t_sleeps, free_mb, t_log>>
    /\ UNCHANGED <<fvars, bvars>>

\* save_state raises OSError: main() prints it, then the next Item
T_SaveFails ==
    /\ t_pc = "save"
    /\ T_Continue(t_i + 1)
    /\ UNCHANGED <<t_run, t_completed, t_to_translate, t_result, t_attempt,
                   t_last_err, t_state_file, t_md, t_call, t_hung, t_sleeps,
                   free_mb, t_log>>
    /\ UNCHANGED <<fvars, bvars>>

\* Ctrl+C: the finally clause of an attempt under way leaves its call
\* running, which matters for a call that does not return within its
\* deadline (another returns or raises on its own before the exit is over);
\* save_state (which may raise OSError), sys.exit(130)
T_Interrupt ==
    /\ t_pc \in {"file", "translate", "waiting", "write", "save"}
    /\ \E saved \in BOOLEAN :
         t_state_file' = IF saved THEN Text(translate_snapshot(t_completed))
                         ELSE t_state_file
    /\ t_hung' = IF t_call = "timeout" THEN t_hung + 1 ELSE t_hung
    /\ t_call' = ""
    /\ T_Exit(130, IF t_call = "timeout" THEN t_hung + 1 ELSE t_hung)
    /\ UNCHANGED <<t_run, t_completed, t_to_translate, t_i, t_result, t_attempt,
                   t_last_err, t_md, t_sleeps, free_mb, t_log>>
    /\ UNCHANGED <<fvars, bvars>>

\* The fetch pipeline at rest
FetchAtRest ==
    /\ pc = "Idle"
    /\ wphase = "none"
    /\ run = 0
    /\ outcome = "none"
    /\ exit_status = 0
    /\ state = FetchState
    /\ all_urls = <<>>
    /\ to_fetch = <<>>
    /\ i = 0
    /\ synced = 0
    /\ orphan_count = 0
    /\ state_file = Absent
    /\ state_tmp = Absent
    /\ art = [p \in Paths |-> Page]
    /\ art_tmp = [p \in Paths |-> NoFile]
    /\ faults = 0
    /\ invoked = <<>>
    /\ ld = [raised |-> "", state |-> EmptyLoaded]
    /\ loaded = FetchState
    /\ sig = "none"
    /\ prev = NoPrev

\* Free space just below MIN_FREE_MB, and at it (below the 2 * MIN_FREE_MB
\* of the warning)
FreeLevels == {MIN_FREE_MB - 1, MIN_FREE_MB}

InitTranslate ==
    /\ FetchAtRest
    /\ TranslateAtRest
    /\ free_mb \in FreeLevels
    /\ BatchIdle

NextTranslate ==
    \/ T_Start
    \/ T_NoSpace
    \/ T_Open
    \/ T_ReadFails
    \/ T_Submit
    \/ T_Translate
    \/ T_WorkerEnds
    \/ T_Write
    \/ T_WriteFails
    \/ T_Save
    \/ T_SaveFails
    \/ T_Interrupt

SpecTranslate == InitTranslate /\ [][NextTranslate]_vars

\* A step of the main thread of translate_python_docs.py
T_Main ==
    \/ T_Open
    \/ T_ReadFails
    \/ T_Submit
    \/ T_Translate
    \/ T_Write
    \/ T_WriteFails
    \/ T_Save
    \/ T_SaveFails

\* The main thread goes on as long as it can: a call it waits for returns,
\* raises or is given up at its deadline.  A call that was given up may
\* never return.
SpecTranslateFair == SpecTranslate /\ WF_vars(T_Main)

\* The fetch pipeline started on a disk with little room
InitDisk ==
    /\ FetchInit
    /\ TranslateAtRest
    /\ free_mb \in FreeLevels
    /\ BatchIdle

SpecDisk == InitDisk /\ [][Next]_vars

\* ------------------------------------------------------- batch_md_to_pdf.py
\* How many .md files the tree may hold
MaxMdFiles == 4

\* The for loop goes to its n-th file; after the last, "if failed: sys.exit(1)"
B_Continue(n, files) ==
    /\ b_i' = n
    /\ IF n <= Len(files)
       THEN b_pc' = "loop" /\ b_exit' = b_exit
       ELSE b_pc' = "ended" /\ b_exit' = (IF b_failed' > 0 THEN 1 ELSE 0)

\* python batch_md_to_pdf.py: md_files, failed = 0
B_Start ==
    /\ b_pc = "Idle"
    /\ b_failed' = 0
    /\ \E S \in SUBSET (1..MaxMdFiles) :
         /\ b_files' = Sorted(S)
         /\ B_Continue(1, Sorted(S))
    /\ UNCHANGED b_pdf
    /\ UNCHANGED <<fvars, tvars>>

\* md_to_pdf(md_path, pdf_path) returns
B_Convert ==
    /\ b_pc = "loop"
    /\ b_pdf' = b_pdf \cup {b_files[b_i]}
    /\ b_failed' = b_failed
    /\ B_Continue(b_i + 1, b_files)
    /\ UNCHANGED b_files
    /\ UNCHANGED <<fvars, tvars>>

\* md_to_pdf raises an Exception: it is printed, failed += 1
B_ConvertFails ==
    /\ b_pc = "loop"
    /\ b_failed' = b_failed + 1
    /\ B_Continue(b_i + 1, b_files)
    /\ UNCHANGED <<b_files, b_pdf>>
    /\ UNCHANGED <<fvars, tvars>>

InitPdf == FetchAtRest /\ TranslateIdle /\ BatchIdle

NextPdf ==
    \/ B_Start
    \/ B_Convert
    \/ B_ConvertFails

SpecPdf == InitPdf /\ [][NextPdf]_vars

\* ---------------------------------------------------- the planner, alone
\* SpecPlan applies the planning of main() to every State whose completed
\* and failed keys are disjoint, every Universe and every set of .md files on
\* disk.  failed_urls is a dict in insertion order, and every order is one the
\* program reaches: with Universe [3] a failing 3, then with Universe [1, 3]
\* (work list [3, 1]) a failing 3 and a failing 1 leave the dict {3: .., 1: ..}.
Perms(S) == {f \in [1..Cardinality(S) -> S] : \A m, n \in DOMAIN f : m # n => f[m] # f[n]}

PlanStates ==
    {[completed_urls |-> Sorted(C),
      failed_urls |-> [n \in DOMAIN f |-> [url |-> f[n], error |-> ErrFetch]],
      last_url |-> NoUrl, error_info |-> NoError, total_planned |-> 0] :
        <<C, f>> \in UNION {{<<C, f>> : C \in SUBSET (Keys \ F), f \in Perms(F)} : F \in SUBSET Keys}}

InitPlan ==
    /\ pc = "plan_in"
    /\ wphase = "none"
    /\ run = 1
    /\ outcome = "none"
    /\ exit_status = 0
    /\ state \in PlanStates
    /\ loaded = state
    /\ \E S \in SUBSET Keys : all_urls = Sorted(S)
    /\ to_fetch = <<>>
    /\ i = 0
    /\ synced = 0
    /\ orphan_count = 0
    /\ state_file = Absent
    /\ state_tmp = Absent
    /\ art \in [Paths -> {NoFile, Page}]
    /\ art_tmp = [p \in Paths |-> NoFile]
    /\ faults = 0
    /\ invoked = <<>>
    /\ ld = [raised |-> "", state |-> EmptyLoaded]
    /\ sig = "none"
    /\ prev = NoPrev
    /\ TranslateIdle
    /\ BatchIdle

\* main(), lines 340-361: to_fetch, the sync from disk, total_planned
PlanApply ==
    /\ pc = "plan_in"
    /\ LET plan == Plan(state, all_urls, art)
       IN  /\ state' = [plan.state EXCEPT
                              !.total_planned = TotalPlanned(all_urls, plan.to_fetch)]
           /\ to_fetch' = plan.to_fetch
           /\ synced' = plan.synced
    /\ pc' = "plan_out"
    /\ UNCHANGED <<wphase, proc, all_urls, i, orphan_count, disk, faults, ghost>>
    /\ UNCHANGED <<tvars, bvars>>

NextPlan == PlanApply

SpecPlan == InitPlan /\ [][NextPlan]_vars

\* ---------------------------------------------------- load_state, alone
\* SpecLoad applies load_state to every file of LoadFiles.
\* The values a field of the snapshot is given
SomeUrl == JStr(URLS[ContentsKey])
CompletedValues == {JList(<<>>), JList(<<SomeUrl>>), JStr(<<"x">>), JNull, JDict(<<>>), JInt(1)}
FailedValues ==
    {JDict(<<>>), JDict(<<[k |-> URLS[ContentsKey], val |-> MsgStr(ErrFetch)]>>),
     JList(<<>>), JNull, JStr(<<"x">>)}
LastUrlValues == {JNull, SomeUrl, JInt(1)}
TotalValues == {JInt(2), JNull, JStr(<<"x">>), JList(<<>>)}
\* Every subset of the four fields, each with every value
Snapshots ==
    {JDict(
       (IF c.t = "invalid" THEN <<>> ELSE <<[k |-> <<"completed_urls">>, val |-> c]>>) \o
       (IF f.t = "invalid" THEN <<>> ELSE <<[k |-> <<"failed_urls">>, val |-> f]>>) \o
       (IF l.t = "invalid" THEN <<>> ELSE <<[k |-> <<"last_url">>, val |-> l]>>) \o
       (IF n.t = "invalid" THEN <<>> ELSE <<[k |-> <<"total_planned">>, val |-> n]>>)) :
         c \in CompletedValues \cup {NotJson}, f \in FailedValues \cup {NotJson},
         l \in LastUrlValues \cup {NotJson}, n \in TotalValues \cup {NotJson}}
LoadFiles ==
    {Absent, Unreadable, Undecodable, Text(NotJson)}
      \cup {Text(j) : j \in {JNull, JInt(1), JStr(<<"x">>), JList(<<>>), JList(<<SomeUrl>>)}}
      \cup {Text(j) : j \in Snapshots}

InitLoad ==
    /\ pc = "load_in"
    /\ wphase = "none"
    /\ run = 1
    /\ outcome = "none"
    /\ exit_status = 0
    /\ state = FetchState
    /\ loaded = FetchState
    /\ all_urls = <<>>
    /\ to_fetch = <<>>
    /\ i = 0
    /\ synced = 0
    /\ orphan_count = 0
    /\ state_file \in LoadFiles
    /\ state_tmp = Absent
    /\ art = [p \in Paths |-> NoFile]
    /\ art_tmp = [p \in Paths |-> NoFile]
    /\ faults = 0
    /\ invoked = <<>>
    /\ ld = [raised |-> "", state |-> EmptyLoaded]
    /\ sig = "none"
    /\ prev = NoPrev
    /\ TranslateIdle
    /\ BatchIdle

\* state = load_state(state_path)
LoadApply ==
    /\ pc = "load_in"
    /\ ld' = load_state(state_file)
    /\ pc' = "load_out"
    /\ UNCHANGED <<wphase, proc, mem, disk, faults, invoked, loaded, sig, prev>>
    /\ UNCHANGED <<tvars, bvars>>

NextLoad == LoadApply

SpecLoad == InitLoad /\ [][NextLoad]_vars

\* ------------------------------------------- the State operations, alone
\* SpecState applies mark_completed, mark_failed and save_state followed by
\* load_state to every State of StateValues (completed_urls and failed_urls
\* in every order, without duplicates), and the save_state and load_state of
\* translate_python_docs.py to every set of completed files.
StateValues ==
    {[completed_urls |-> c,
      failed_urls |-> [m \in DOMAIN f |-> [url |-> f[m], error |-> ErrFetch]],
      last_url |-> l, error_info |-> e, total_planned |-> n] :
        c \in UNION {Perms(C) : C \in SUBSET Keys},
        f \in UNION {Perms(F) : F \in SUBSET Keys},
        l \in {NoUrl, ContentsKey},
        e \in {NoError, [url |-> ContentsKey, error |-> ErrContents,
                         traceback |-> Traceback(ErrContents)]},
        n \in {0, Len(URLS)}}

InitState ==
    /\ pc = "state_in"
    /\ wphase = "none"
    /\ run = 1
    /\ outcome = "none"
    /\ exit_status = 0
    /\ state \in StateValues
    /\ loaded = state
    /\ all_urls = <<>>
    /\ \E u \in Keys : to_fetch = <<u>>
    /\ i = 1
    /\ synced = 0
    /\ orphan_count = 0
    /\ state_file = Absent
    /\ state_tmp = Absent
    /\ art = [p \in Paths |-> NoFile]
    /\ art_tmp = [p \in Paths |-> NoFile]
    /\ faults = 0
    /\ invoked = <<>>
    /\ ld = [raised |-> "", state |-> EmptyLoaded]
    /\ sig = "none"
    /\ prev = NoPrev
    /\ t_pc = "state_in"
    /\ t_run = 1
    /\ t_exit = 0
    /\ t_completed \in SUBSET MdFiles
    /\ t_to_translate = <<>>
    /\ t_i = 0
    /\ t_result = <<>>
    /\ t_attempt = 0
    /\ t_last_err = ""
    /\ t_state_file = Absent
    /\ t_md = MD_TEXT
    /\ t_call = ""
    /\ t_hung = 0
    /\ t_sleeps = <<>>
    /\ free_mb = 2 * MIN_FREE_MB
    /\ t_log = [f \in MdFiles |-> NoCalls]
    /\ BatchIdle

\* state.mark_completed(url_path)
MarkCompletedApply ==
    /\ pc = "state_in"
    /\ state' = mark_completed(state, Current)
    /\ pc' = "marked_completed"
    /\ UNCHANGED <<wphase, proc, all_urls, to_fetch, i, synced, orphan_count, disk,
                   faults, ghost>>
    /\ UNCHANGED <<tvars, bvars>>

\* state.mark_failed(url_path, error)
MarkFailedApply ==
    /\ pc = "state_in"
    /\ \E e \in {ErrFetch, ErrDisk} :
         /\ state' = mark_failed(state, Current, e)
         /\ sig' = e
    /\ pc' = "marked_failed"
    /\ UNCHANGED <<wphase, proc, all_urls, to_fetch, i, synced, orphan_count, disk,
                   faults, invoked, ld, loaded, prev>>
    /\ UNCHANGED <<tvars, bvars>>

\* save_state(state, state_path), then load_state(state_path)
SaveLoadApply ==
    /\ pc = "state_in"
    /\ state_file' = Text(asdict(state))
    /\ ld' = load_state(state_file')
    /\ pc' = "reloaded"
    /\ UNCHANGED <<wphase, proc, mem, state_tmp, art, art_tmp, faults, invoked,
                   loaded, sig, prev>>
    /\ UNCHANGED <<tvars, bvars>>

\* save_state(completed, state_path) of translate_python_docs.py
TranslateSaveApply ==
    /\ t_pc = "state_in"
    /\ t_state_file' = Text(translate_snapshot(t_completed))
    /\ t_pc' = "saved"
    /\ UNCHANGED <<t_run, t_exit, t_completed, t_to_translate, t_i, t_result,
                   t_attempt, t_last_err, t_md, t_call, t_hung, t_sleeps,
                   free_mb, t_log>>
    /\ UNCHANGED <<fvars, bvars>>

NextState ==
    \/ MarkCompletedApply
    \/ MarkFailedApply
    \/ SaveLoadApply
    \/ TranslateSaveApply

SpecState == InitState /\ [][NextState]_vars

\* ================================================================= claims
Completed(st) == Range(st.completed_urls)
Running == pc # "Idle"

\* C1: no key is in both `completed` and `failed` of the State, in memory or
\* in the snapshot on disk, whatever planning, sync-from-disk, item outcomes,
\* Universe-acquisition failures and failing saves came before.
C1_CompletedFailedDisjoint ==
    /\ Completed(state) \cap FailedKeys(state) = {}
    /\ state_file.kind = "text" /\ state_file.json.t = "dict" =>
         LET st == FromLoaded(load_state(state_file).state)
         IN  Completed(st) \cap FailedKeys(st) = {}

\* The State a process that starts now would load
Persisted == FromLoaded(load_state(state_file).state)
\* This process was started after the previous one was killed / ended normally
\* / was interrupted, and obtained the same Universe
SameUniverse == run >= 2 /\ prev.urls = all_urls /\ all_urls # <<>>
\* How many times fetch_and_save_one was called with u, this run
Calls(u) == Cardinality({n \in 1..Len(invoked) : invoked[n] = u})

\* C2: resumability.  A process restarted after a kill, against the same
\* Universe, never invokes the step for an Item the snapshot it loaded holds
\* as completed, and when it ends normally every other Item of the Universe
\* was dealt with (the step was invoked for it, or it was reconciled from disk).
C2_Resumability ==
    SameUniverse /\ prev.outcome = "killed" =>
      /\ Range(invoked) \cap Completed(loaded) = {}
      /\ pc = "Idle" /\ outcome = "done" =>
           Range(all_urls) \ Completed(loaded) \subseteq Range(invoked) \cup Completed(state)

WholeState(f) == f = Absent \/ (f.kind = "text" /\ f.json.t = "dict")
WholePage(f) == f \in {NoFile, Page}

\* C9: atomicity.  No destination (the snapshot, an Artifact) ever holds a
\* partial content: it changes only to the whole new content; a write that
\* fails or is interrupted and returns control leaves no .tmp file of it; after
\* a crash the sweep of the next process, when its unlink calls succeed,
\* leaves no .tmp file.
C9_Atomicity ==
    /\ [](WholeState(state_file) /\ \A p \in Paths : WholePage(art[p]))
    /\ [][state_file' # state_file => state_file' = Text(asdict(state))]_vars
    /\ [][\A p \in Paths : art'[p] # art[p] =>
            art'[p] = Page /\ pc = "write_art" /\ p = _url_to_output_path(Current)]_vars
    /\ [][SaveFails \/ (Interrupt /\ pc = "save_ok") => state_tmp' = Absent]_vars
    /\ [][ArtFails \/ (Interrupt /\ pc = "write_art") =>
            art_tmp'[_url_to_output_path(Current)] = NoFile]_vars
    /\ [][Sweep /\ faults' = faults =>
            state_tmp' = Absent /\ \A p \in Paths : art_tmp'[p] = NoFile]_vars

\* C9, witness: a process killed inside a write left a .tmp file, and the
\* sweep of the next process removed it.
C9_Witness ==
    /\ run >= 2 /\ prev.outcome = "killed" /\ pc = "Loading"
    /\ orphan_count >= 1
    /\ state_tmp = Absent /\ \A p \in Paths : art_tmp[p] = NoFile

\* The .md file of u was on disk when this process started
OnDisk(u) == prev.art[_url_to_output_path(u)] # NoFile

\* C4: sync-from-disk.  Whatever Universe, State and .md files a process
\* finds, a Universe key that is not in `failed` and is in `completed` or has
\* its Artifact on disk is not in the work list and the step is not invoked
\* for it; if it was not in `completed` and its Artifact exists, planning
\* adds it to `completed`.
C4_SyncFromDisk ==
    \A u \in Range(all_urls) :
      u \notin FailedKeys(loaded) =>
        /\ u \in Completed(loaded) \/ OnDisk(u) =>
             u \notin Range(to_fetch) /\ u \notin Range(invoked)
        /\ u \notin Completed(loaded) /\ OnDisk(u) => u \in Completed(state)

\* C4, witness: a second run that ended normally over a Universe of three: one
\* key was completed in the snapshot, one was reconciled from its .md file,
\* and the third was the work list and the only call of the step.
C4_Witness ==
    /\ run = 2 /\ pc = "Idle" /\ outcome = "done"
    /\ Len(all_urls) = 3 /\ FailedKeys(loaded) = {}
    /\ Cardinality(Completed(loaded)) = 1
    /\ synced = 1 /\ Len(to_fetch) = 1 /\ invoked = to_fetch
    /\ Completed(state) = Range(all_urls)

\* C5: the work list is the retry candidates (the keys of `failed` that are
\* in the Universe) in Universe order, then the pending keys (not failed, not
\* completed, no Artifact on disk) in Universe order.
C5_RetryFirstInUniverseOrder ==
    pc = "plan_out" =>
      to_fetch =
        SelectSeq(all_urls, LAMBDA u : u \in FailedKeys(loaded)) \o
        SelectSeq(all_urls, LAMBDA u :
            /\ u \notin FailedKeys(loaded)
            /\ u \notin Completed(loaded)
            /\ ~Exists(art[_url_to_output_path(u)]))

\* The snapshot has a field that is present with a value of the wrong type
FieldOk(data, key, types) == ~HasKey(data, key) \/ DictGet(data, key, JNull).t \in types
WrongField(data) ==
    \/ ~FieldOk(data, <<"completed_urls">>, {"list"})
    \/ ~FieldOk(data, <<"failed_urls">>, {"dict"})
    \/ ~FieldOk(data, <<"last_url">>, {"str", "null"})
    \/ ~FieldOk(data, <<"total_planned">>, {"int"})
Defective(file) ==
    \/ file.kind # "text"
    \/ file.json.t # "dict"
    \/ WrongField(file.json)

\* C10: load_state raises nothing, and returns the empty State when the
\* snapshot file is absent, unreadable, not JSON, not a JSON object, or has a
\* field of the wrong type.
C10_LoadNeverRaises ==
    pc = "load_out" =>
      /\ ld.raised = ""
      /\ Defective(state_file) => ld.state = EmptyLoaded

\* The loop of translate main() is past f, this run
T_Processed(f) == \E n \in 1..Len(t_to_translate) : t_to_translate[n] = f /\ n < t_i
\* The snapshot on disk names f under a field other than "completed"
T_Recorded(f) ==
    /\ t_state_file.kind = "text"
    /\ \E m \in 1..Len(t_state_file.json.kids) :
         LET item == t_state_file.json.kids[m]
         IN  /\ item.k # <<"completed">>
             /\ \/ item.val.s = _path_to_key(f)
                \/ \E n \in 1..Len(item.val.kids) :
                     \/ item.val.kids[n].k = _path_to_key(f)
                     \/ item.val.kids[n].val.s = _path_to_key(f)

\* C6: retry budget.  An Item every translator call of which raised a
\* retryable error had TRANSLATE_RETRIES calls for each paragraph; once the
\* loop is past it, it is not in completed and the snapshot on disk holds a
\* failure entry for it.
C6_RetryBudget ==
    \A f \in MdFiles :
      LET log == t_log[f]
      IN  T_Processed(f) /\ log.calls > 0 /\ log.raised = log.calls =>
            /\ log.calls = TRANSLATE_RETRIES * Len(t_md[f])
            /\ f \notin t_completed
            /\ T_Recorded(f)

\* C7: fatal short-circuit.  After a translator call for an Item raised an
\* unexpected error no further call is made for the Item, the loop does not
\* go past it, and the process ends with status 1 and the Item recorded in
\* the snapshot.
C7_FatalShortCircuit ==
    \A f \in MdFiles :
      t_log[f].fatal =>
        /\ ~t_log[f].again
        /\ ~T_Processed(f)
        /\ t_pc = "Idle" => t_exit = 1 /\ T_Recorded(f)

\* C11: a save_state that fails is surfaced, not swallowed: the run ends with
\* a non-zero status instead of going on, and the State gets no failure entry
\* for it.
C11_SaveFailureSurfaced ==
    [][SaveFails =>
         /\ pc' = "Idle" /\ exit_status' # 0
         /\ state'.failed_urls = state.failed_urls]_vars

\* The keys whose membership of completed or failed, or whose error message,
\* differs between the State in memory and the snapshot on disk
Unpersisted ==
    {u \in Keys :
       \/ (u \in Completed(state)) # (u \in Completed(Persisted))
       \/ (u \in FailedKeys(state)) # (u \in FailedKeys(Persisted))
       \/ /\ u \in FailedKeys(state) \cap FailedKeys(Persisted)
          /\ FailedError(state, u) # FailedError(Persisted, u)}
LoopPcs == {"step", "write_art", "post_step", "save_ok", "save_err", "save_fatal", "save_int"}

C15_ExitPersistsState ==
    pc = "Idle" /\ outcome \in {"done", "interrupted", "universe_failed", "universe_crashed", "fatal"} =>
      Persisted = state

\* C16: a process that could not obtain the Universe ends with status 1, with
\* the error persisted in the snapshot, and planned and fetched nothing.
C16_UniverseFailureFatal ==
    pc = "Idle" /\ outcome \in {"universe_failed", "universe_crashed"} =>
      /\ exit_status = 1
      /\ to_fetch = <<>> /\ invoked = <<>> /\ synced = 0
      /\ Persisted.error_info # NoError
      /\ Persisted.error_info = state.error_info

\* The work-list positions whose record in the snapshot on disk is not the
\* one the snapshot loaded at start held
RecordedThisRun ==
    {j \in 1..Len(to_fetch) :
       LET u == to_fetch[j]
       IN  \/ (u \in Completed(Persisted)) # (u \in Completed(loaded))
           \/ (u \in FailedKeys(Persisted)) # (u \in FailedKeys(loaded))
           \/ /\ u \in FailedKeys(Persisted) \cap FailedKeys(loaded)
              /\ FailedError(Persisted, u) # FailedError(loaded, u)}

TmpCount == Cardinality(OrphanTmps) + (IF state_tmp # Absent THEN 1 ELSE 0)

\* C20: the sweep is the first thing a process does and is done once, before
\* load_state and before planning; it changes no destination, removes every
\* .tmp file whose unlink succeeds, counts in orphan_count the files it
\* removed, and whatever unlink raises the process goes on to load_state.
C20_SweepOnceFirst ==
    /\ [][pc' = "Sweeping" => pc = "Idle" /\ run' = run + 1]_vars
    /\ [][pc = "Idle" /\ pc' # "Idle" => pc' = "Sweeping"]_vars
    /\ [][pc' = "Loading" => pc = "Sweeping"]_vars
    /\ [][pc' = "Universe" => pc = "Loading"]_vars
    /\ [][pc = "Sweeping" /\ pc' # "Loading" => pc' = "Idle" /\ outcome' = "killed"]_vars
    /\ [][pc = "Sweeping" /\ pc' = "Loading" =>
            /\ orphan_count' = TmpCount - TmpCount'
            /\ faults' = faults => TmpCount' = 0
            /\ state_file' = state_file /\ art' = art
            /\ state_tmp' \in {state_tmp, Absent}
            /\ \A p \in Paths : art_tmp'[p] \in {art_tmp[p], NoFile}]_vars

\* C20, witness: a process found the .tmp file a killed write left, could not
\* remove it, counted nothing, and went on to load_state and to the Universe.
C20_Witness ==
    /\ pc = "Universe" /\ prev.outcome = "killed"
    /\ orphan_count = 0 /\ TmpCount = 1

\* C12: round trip.  The State load_state returns for the file save_state
\* wrote is the State saved, field by field; and the set the load_state of
\* translate_python_docs.py returns is the set its save_state wrote.
C12_RoundTrip ==
    /\ pc = "reloaded" =>
         /\ ld.raised = ""
         /\ LET back == FromLoaded(ld.state)
            IN  /\ back.completed_urls = state.completed_urls
                /\ back.failed_urls = state.failed_urls
                /\ back.last_url = state.last_url
                /\ back.error_info = state.error_info
                /\ back.total_planned = state.total_planned
    /\ t_pc = "saved" =>
         translate_load_state(t_state_file) = [raised |-> "", completed |-> t_completed]

\* C12, witness: a State with two failed keys out of Universe order, a
\* last_url, an error_info and a total_planned was saved and loaded.
C12_Witness ==
    /\ pc = "reloaded" /\ t_pc = "saved" /\ t_completed = MdFiles
    /\ Len(state.failed_urls) = 2 /\ state.failed_urls[1].url > state.failed_urls[2].url
    /\ state.completed_urls # <<>>
    /\ state.last_url # NoUrl /\ state.error_info # NoError /\ state.total_planned > 0

\* How many times u is in the list
Count(u, list) == Cardinality({n \in 1..Len(list) : list[n] = u})
\* The keys other than u are in completed and failed of st as in before
OthersKept(u, st, before) ==
    \A v \in Keys \ {u} :
      /\ Count(v, st.completed_urls) = Count(v, before.completed_urls)
      /\ (v \in FailedKeys(st)) = (v \in FailedKeys(before))
      /\ v \in FailedKeys(st) => FailedError(st, v) = FailedError(before, v)

\* C19: mark_completed(u) leaves u once in completed and not in failed;
\* mark_failed(u, e) leaves failed[u] = e and completed as it was; both leave
\* every other key as it was and the snapshot file as it was.
C19_MarkFrame ==
    /\ pc = "marked_completed" =>
         /\ Count(Current, state.completed_urls) = 1
         /\ Current \notin FailedKeys(state)
         /\ OthersKept(Current, state, loaded)
         /\ state_file = Absent /\ state_tmp = Absent
    /\ pc = "marked_failed" =>
         /\ Current \in FailedKeys(state) /\ FailedError(state, Current) = sig
         /\ Count(Current, FailedOrder(state)) = 1
         /\ state.completed_urls = loaded.completed_urls
         /\ OthersKept(Current, state, loaded)
         /\ state_file = Absent /\ state_tmp = Absent

\* C19, witness: mark_completed of a key that was already completed and was
\* failed, among other completed and failed keys.
C19_Witness ==
    /\ pc = "marked_completed"
    /\ Current \in Completed(loaded) \cap FailedKeys(loaded)
    /\ Cardinality(Completed(loaded)) = 2 /\ Cardinality(FailedKeys(loaded)) = 2

\* C13: a process that went through its whole work list exits with status 0,
\* the status of normal completion, whether or not Items failed; a failure of
\* an Item never turns it into the status of a fatal error.
C13_ExitStatus ==
    b_pc = "ended" => b_exit = 0

\* C17: per-Item errors are contained and recorded.  When the process ends
\* normally every Item of the work list is in completed or has a failure
\* entry in the snapshot on disk, never both.
C17_ItemErrorsContained ==
    t_pc = "Idle" /\ t_run >= 1 /\ t_exit = 0 =>
      \A f \in Range(t_to_translate) : (f \in t_completed) # T_Recorded(f)

\* C24: once Ctrl+C was taken the process saves and exits: the step is
\* invoked for no further Item.
C24_NoNewItemAfterCancel ==
    /\ [](sig # "none" => pc \in {"save_int", "Idle"} /\ Len(invoked) = i)
    /\ [][sig # "none" /\ sig' # "none" => invoked' = invoked]_vars

\* C24, witness: a process interrupted at the first of two Items has ended,
\* with status 130, and the second was never started.
C24_Witness ==
    /\ pc = "Idle" /\ outcome = "interrupted" /\ exit_status = 130
    /\ Len(to_fetch) = 2 /\ invoked = <<to_fetch[1]>>

\* Planning is done and the Universe of this run is all_urls
Planned ==
    \/ pc \in LoopPcs \cup {"save_sync"}
    \/ pc = "Idle" /\ outcome \in {"done", "interrupted", "fatal"}

\* C26: a key the loaded State holds as completed or failed and the Universe
\* of this run does not contain is not in the work list, the step is not
\* invoked for it, and its entries in the State and in the snapshot on disk
\* stay as they were loaded.
C26_DeadStateKept ==
    Planned =>
      \A u \in (Completed(loaded) \cup FailedKeys(loaded)) \ Range(all_urls) :
        /\ u \notin Range(to_fetch) /\ u \notin Range(invoked)
        /\ \A st \in {state, Persisted} :
             /\ (u \in Completed(st)) = (u \in Completed(loaded))
             /\ (u \in FailedKeys(st)) = (u \in FailedKeys(loaded))
             /\ u \in FailedKeys(loaded) => FailedError(st, u) = FailedError(loaded, u)

\* C26, witness: a second run that ended normally, after fetching, over a
\* Universe that lacks a key loaded as completed and a key loaded as failed.
C26_Witness ==
    /\ run = 2 /\ pc = "Idle" /\ outcome = "done" /\ invoked # <<>>
    /\ Completed(loaded) \ Range(all_urls) # {}
    /\ FailedKeys(loaded) \ Range(all_urls) # {}

\* C27: after each Item outcome last_url is the Item just processed, whether
\* it completed or failed; error_info is the failure just recorded, and is
\* empty after a success.
C27_LastTouched ==
    /\ pc \in {"save_ok", "save_err", "save_fatal"} => state.last_url = Current
    /\ pc \in {"save_err", "save_fatal"} =>
         /\ state.error_info # NoError
         /\ state.error_info.url = Current
         /\ state.error_info.error = FailedError(state, Current)
    /\ pc = "save_ok" /\ wphase = "begin" => state.error_info = NoError

\* C28: once total_planned is assigned after planning it is the number of
\* Items of the Universe of this run, whatever the work list and whatever
\* Universe the run before had.
C28_TotalPlanned ==
    pc \in LoopPcs \/ (pc = "Idle" /\ outcome \in {"done", "interrupted", "fatal"}) =>
      state.total_planned = Len(all_urls)

\* C28, witness: a second run in its loop, over a Universe larger than the
\* one of the first run, with a work list shorter than the Universe.
C28_Witness ==
    /\ run = 2 /\ pc = "step"
    /\ Len(prev.urls) > 0 /\ Len(all_urls) > Len(prev.urls)
    /\ loaded.total_planned = Len(prev.urls)
    /\ Len(to_fetch) < Len(all_urls)

\* C30: every key of failed was loaded as failed or is an Item for which
\* this run invoked the step.
C30_FailedAreItems ==
    \A u \in FailedKeys(state) : u \in FailedKeys(loaded) \/ u \in Range(invoked)

\* How many calls of translator.translate are executing
Executing == t_hung + (IF t_pc = "waiting" THEN 1 ELSE 0)

\* C21: an attempt whose call does not return within REQUEST_TIMEOUT never
\* holds _translate_with_retry up: while main() waits for a call its next
\* step is possible, and when the deadline of a call elapses the attempt is
\* one more failed attempt: the next attempt follows if one is left, else
\* the original text is returned, and the call is left running in its thread.
C21_TimeoutNeverBlocks ==
    /\ [](t_pc = "waiting" => ENABLED T_Translate)
    /\ [][t_pc = "waiting" /\ t_call = "timeout" /\ t_pc' \in {"translate", "write"} =>
            /\ t_hung' = t_hung + 1
            /\ t_log'[T_Current].raised = t_log[T_Current].raised + 1
            /\ IF t_attempt < TRANSLATE_RETRIES - 1
               THEN /\ t_attempt' = t_attempt + 1
                    /\ t_pc' = "translate"
                    /\ t_result' = t_result
               ELSE t_result' = Append(t_result, t_md[T_Current][Len(t_result) + 1])]_vars

\* C21, witness: the first attempt for a paragraph timed out, its call is
\* still running, and _translate_with_retry has slept and is at its second
\* attempt.
C21_Witness ==
    /\ t_pc = "translate" /\ t_attempt = 1 /\ t_last_err = "FuturesTimeoutError"
    /\ t_hung = 1 /\ Len(t_sleeps) = 1

RECURSIVE SumSeq(_)
SumSeq(s) == IF s = <<>> THEN 0 ELSE s[1] + SumSeq(Tail(s))

\* C22: the k-th sleep of a _translate_with_retry is SLEEP_BETWEEN * k;
\* inside the loop there was one sleep per failed attempt, and there are at
\* most TRANSLATE_RETRIES - 1 of them: none follows the last attempt.  For
\* an Item all of whose calls failed, the sleeps of the paragraph just
\* returned add up to SLEEP_BETWEEN * (1 + 2).
C22_Backoff ==
    /\ Len(t_sleeps) <= TRANSLATE_RETRIES - 1
    /\ \A k \in 1..Len(t_sleeps) : t_sleeps[k] = SLEEP_BETWEEN * k
    /\ t_pc = "waiting" \/ (t_pc = "translate" /\ t_attempt > 0) =>
         Len(t_sleeps) = t_attempt
    /\ /\ t_pc \in {"translate", "write"} /\ t_attempt = 0 /\ t_result # <<>>
       /\ t_log[T_Current].raised = TRANSLATE_RETRIES * Len(t_result)
       => SumSeq(t_sleeps) = SLEEP_BETWEEN * (1 + 2)

\* C22, witness: the three attempts for the one paragraph of a file failed,
\* and _translate_with_retry has returned after two sleeps.
C22_Witness ==
    /\ t_pc = "write" /\ t_log[T_Current].raised = TRANSLATE_RETRIES
    /\ t_result = t_md[T_Current]
    /\ t_sleeps = <<SLEEP_BETWEEN, 2 * SLEEP_BETWEEN>>

\* C23: at most one call of translator.translate is executing at any time.
C23_Sequential == Executing <= 1

\* C25: with less than MIN_FREE_MB free no process gets past its start: a
\* process that was started has ended with a non-zero status, nothing was
\* swept, loaded, written or processed.
C25_AdmissionGate ==
    free_mb < MIN_FREE_MB =>
      /\ pc = "Idle" /\ (run > 0 => exit_status # 0)
      /\ state_file = Absent /\ invoked = <<>>
      /\ t_pc = "Idle" /\ (t_run > 0 => t_exit # 0)
      /\ t_state_file = Absent /\ t_md = MD_TEXT

\* C29: no file all of whose translator calls failed or timed out is in
\* completed.
C29_CompletedOnlyIfSucceeded ==
    \A f \in t_completed :
      ~(t_log[f].calls > 0 /\ t_log[f].raised = t_log[f].calls)

\* C31: completed has no duplicate entry, in memory and in the snapshot; no
\* step of a process removes a key from it; no step at all removes a key
\* from the completed of the snapshot; and what load_state gives the next
\* process is the completed of the snapshot.
C31_CompletedOnlyGrows ==
    /\ [](NoDup(state.completed_urls) /\ NoDup(Persisted.completed_urls))
    /\ [][/\ run' = run => Completed(state) \subseteq Completed(state')
          /\ state_file' # state_file =>
               Completed(Persisted) \subseteq Completed(Persisted')
          /\ pc = "Loading" /\ pc' = "Universe" =>
               state'.completed_urls = Persisted.completed_urls]_vars

\* C31, witness: a second run that loaded completed keys from the snapshot
\* of the first has ended normally with more of them, all saved.
C31_Witness ==
    /\ run = 2 /\ pc = "Idle" /\ outcome = "done"
    /\ Completed(loaded) # {}
    /\ Completed(loaded) \subseteq Completed(Persisted)
    /\ Completed(loaded) # Completed(Persisted)
    /\ Persisted.completed_urls = state.completed_urls

\* C32: from the end of planning on, the work list has no duplicate, holds
\* only keys of the Universe of this run and holds every key of that
\* Universe that was loaded as failed; the step is invoked at most once for
\* a key.
C32_WorkListWellFormed ==
    /\ NoDup(invoked)
    /\ Planned =>
         /\ NoDup(to_fetch)
         /\ Range(to_fetch) \subseteq Range(all_urls)
         /\ FailedKeys(loaded) \cap Range(all_urls) \subseteq Range(to_fetch)

\* C32, witness: a second run whose work list, of two Items, has a retry
\* candidate and a pending Item, has gone through it to its normal end,
\* over a Universe that lacks a key loaded as failed.
C32_Witness ==
    /\ run = 2 /\ pc = "Idle" /\ outcome = "done"
    /\ Len(to_fetch) = 2 /\ invoked = to_fetch
    /\ to_fetch[1] \in FailedKeys(loaded) /\ to_fetch[2] \notin FailedKeys(loaded)
    /\ FailedKeys(loaded) \ Range(all_urls) # {}

\* C33: every process that was started ends, and translator.translate is
\* called for an Item at most TRANSLATE_RETRIES times for each of its
\* paragraphs.
C33_EveryRunTerminates ==
    /\ [](\A f \in MdFiles : t_log[f].calls <= TRANSLATE_RETRIES * Len(MD_TEXT[f]))
    /\ (t_pc # "Idle") ~> (t_pc = "Idle")

====
